---- MODULE Spec2Model ----
(***************************************************************************)
(* Model of dockerview's LogPane (src/dockerview/ui/viewers/log_pane.py):  *)
(* the session controller, the reader threads, the intake queue, the       *)
(* drain step and the buffer/filter engine.                                *)
(*                                                                         *)
(* Strings are sequences of one-character strings, so that strip(),        *)
(* lower() and the substring test are computed as Python computes them.    *)
(* A log line is a record [t, sid, src]: t is the text the code stores;    *)
(* sid (the session of the reader that read it) and src (the container it  *)
(* was read from) are history fields the code does not store.              *)
(***************************************************************************)
EXTENDS Integers, Sequences, FiniteSets, TLC

\* ------------------------------------------------------------------ bounds
MaxSession == 2      \* Spec: sessions (reader threads) started in one run
MaxEmit == 2         \* Spec: log lines delivered by the daemon in one run
MaxSelSession == 1   \* SpecSelect: sessions started in one run
MaxSelEmit == 2      \* SpecSelect: log lines delivered in one run
MaxFilterEmit == 3   \* SpecFilter: log lines delivered in one run
MaxStackSession == 1 \* SpecStack: sessions started in one run
MaxStackEmit == 2    \* SpecStack: log lines delivered in one run
MaxLiveEmit == 1     \* SpecLive: counted log lines delivered in one run
MaxQueue == 1        \* SpecLive: queue length at which a superseded stream pauses
MaxFloodEmit == 52   \* SpecFlood: log lines delivered in one run
MaxStaleEmit == 1    \* SpecFlood: of these, the first ones may go to any reader
MaxTickEmit == 2     \* SpecTick: log lines delivered in one run
MaxAnsiLen == 4      \* SpecAnsi: characters of a raw line
MaxAnsiEmit == 1     \* SpecAnsi: log lines delivered in one run
MaxStopSession == 1  \* SpecStop
MaxStopEmit == 2     \* SpecStop
MaxFollowEmit == 2   \* SpecFollow
MaxErrorEmit == 2    \* SpecError
MaxEvictEmit == 3    \* SpecEvict: one more than MAX_LINES
MaxCarrySession == 2 \* SpecCarry
MaxCarryEmit == 1    \* SpecCarry
MAX_LINES == 2       \* config "log.max_lines" (capacity of the deque)
DRAIN_BATCH == 50    \* range(50) in _process_log_queue

\* ------------------------------------------------------------------ text
ESC == "ESC"

Lower(c) == IF c = "A" THEN "a" ELSE IF c = "B" THEN "b" ELSE c

\* str.lower()
LowerStr(s) == [i \in 1..Len(s) |-> Lower(s[i])]

\* Python's `x in y` on strings
Contains(x, y) == \E i \in 0..(Len(y) - Len(x)) : SubSeq(y, i + 1, i + Len(x)) = x

IsSpace(c) == c \in {" ", "\n"}

RECURSIVE RStrip(_)
\* str.rstrip()
RStrip(s) == IF s # <<>> /\ IsSpace(s[Len(s)]) THEN RStrip(SubSeq(s, 1, Len(s) - 1)) ELSE s

RECURSIVE LStrip(_)
LStrip(s) == IF s # <<>> /\ IsSpace(Head(s)) THEN LStrip(Tail(s)) ELSE s

\* str.strip()
Strip(s) == LStrip(RStrip(s))

\* Character classes of ANSI_ESCAPE_PATTERN, over the characters the model uses.
AnsiSingle == {"A", "B", "]"}                        \* [@-Z\\-_]
AnsiParam == {"0", ";"}                              \* [0-?]
AnsiInter == {" "}                                   \* [ -/]
AnsiFinal == {"A", "B", "a", "b", "m", "z", "[", "]"} \* [@-~]

RECURSIVE SkipClass(_, _, _)
\* index of the first character at or after i that is not in class cls
SkipClass(s, i, cls) == IF i <= Len(s) /\ s[i] \in cls THEN SkipClass(s, i + 1, cls) ELSE i

\* Length of the match of ANSI_ESCAPE_PATTERN at index i of s (0: no match).
AnsiMatchLen(s, i) ==
    IF s[i] # ESC \/ i + 1 > Len(s) THEN 0
    ELSE IF s[i + 1] \in AnsiSingle THEN 2
    ELSE IF s[i + 1] = "["
         THEN LET j == SkipClass(s, SkipClass(s, i + 2, AnsiParam), AnsiInter)
              IN IF j <= Len(s) /\ s[j] \in AnsiFinal THEN j - i + 1 ELSE 0
         ELSE 0

RECURSIVE AnsiSub(_, _)
AnsiSub(s, i) ==
    IF i > Len(s) THEN <<>>
    ELSE LET n == AnsiMatchLen(s, i)
         IN IF n > 0 THEN AnsiSub(s, i + n) ELSE <<s[i]>> \o AnsiSub(s, i + 1)

\* ANSI_ESCAPE_PATTERN.sub("", text)
strip_ansi_codes(text) == AnsiSub(text, 1)

\* line.rstrip() then strip_ansi_codes(line), as both readers do
Sanitize(raw) == strip_ansi_codes(RStrip(raw))

\* ------------------------------------------------------------------ time window
Digits == {"0", "1", "2", "3", "4", "5", "6", "7", "8", "9"}

DigitVal(c) ==
    CASE c = "0" -> 0 [] c = "1" -> 1 [] c = "2" -> 2 [] c = "3" -> 3 [] c = "4" -> 4
      [] c = "5" -> 5 [] c = "6" -> 6 [] c = "7" -> 7 [] c = "8" -> 8 [] c = "9" -> 9

RECURSIVE ParseInt(_)
\* int(match.group(1))
ParseInt(ds) ==
    IF ds = <<>> THEN 0
    ELSE 10 * ParseInt(SubSeq(ds, 1, Len(ds) - 1)) + DigitVal(ds[Len(ds)])

\* the part of since_str that re.match(r"^(\d+)([mhd])$", since_str) must match
\* as a whole: `$` also matches before one newline at the end of the string
SinceCore(since_str) ==
    IF since_str # <<>> /\ since_str[Len(since_str)] = "\n"
    THEN SubSeq(since_str, 1, Len(since_str) - 1) ELSE since_str

\* `match`, line 934
SinceMatch(since_str) ==
    LET core == SinceCore(since_str)
    IN /\ Len(core) >= 2
       /\ \A i \in 1..(Len(core) - 1) : core[i] \in Digits
       /\ core[Len(core)] \in {"m", "h", "d"}

\* match.group(1) and match.group(2)
SinceDigits(since_str) == SubSeq(SinceCore(since_str), 1, Len(SinceCore(since_str)) - 1)
SinceUnit(since_str) == SinceCore(since_str)[Len(SinceCore(since_str))]

\* the reading of time.time(), in seconds
Now == 1000000

\* the largest float has 309 decimal digits: `time.time() - seconds` (line 954)
\* converts seconds to float, and an int of more digits raises OverflowError
FloatDigits == 309

RECURSIVE SignificantDigits(_)
SignificantDigits(ds) ==
    IF ds # <<>> /\ Head(ds) = "0" THEN SignificantDigits(Tail(ds)) ELSE Len(ds)

\* _convert_since_to_timestamp raises (the values between the ones TLC can
\* compute and FloatDigits digits are not among the inputs)
SinceRaises(since_str) ==
    SinceMatch(since_str) /\ SignificantDigits(SinceDigits(since_str)) > FloatDigits

\* LogPane._convert_since_to_timestamp, when it returns
_convert_since_to_timestamp(since_str) ==
    IF ~SinceMatch(since_str) THEN Now - 15 * 60
    ELSE LET value == ParseInt(SinceDigits(since_str))
             unit == SinceUnit(since_str)
         IN Now - (IF unit = "m" THEN value * 60
                   ELSE IF unit = "h" THEN value * 3600
                   ELSE IF unit = "d" THEN value * 86400
                   ELSE 15 * 60)

\* ------------------------------------------------------------------ inputs
NoItem == <<>>
NoData == [name |-> "", status |-> ""]

Containers == {"c1", "c2"}
StackMembers == {"m1", "m2"}

\* the (item_type, item_id, item_data) triples the selection collaborator sends
Selections ==
    {[type |-> "container", id |-> "c1", status |-> "running"],
     [type |-> "container", id |-> "c1", status |-> "up"],
     [type |-> "container", id |-> "c1", status |-> "exited"],
     [type |-> "container", id |-> "c2", status |-> "running"],
     [type |-> "container", id |-> "c2", status |-> "created"],
     [type |-> "stack", id |-> "s1", status |-> ""],
     [type |-> "network", id |-> "n1", status |-> ""],
     [type |-> "image", id |-> "i1", status |-> ""],
     [type |-> "volume", id |-> "v1", status |-> ""]}

ItemData(sel) == [name |-> sel.id, status |-> sel.status]

\* "running" in status or "up" in status
IsUp(status) == status \in {"running", "up"}
\* "exited" in status or "stopped" in status
IsDown(status) == status \in {"exited", "stopped"}
\* "exited" in status or "stopped" in status or "created" in status
IsNotRunning(status) == status \in {"exited", "stopped", "created"}

TailOptions == {"200", "50"}
\* two of the values of since-select
SinceOptions == {<<"1", "5", "m">>, <<"5", "m">>}

\* the two running containers
SelRunning == {sel \in Selections : sel.type = "container" /\ sel.status = "running"}

\* every kind of item but the stack
SelKinds == {sel \in Selections : sel.type # "stack"}
\* the stack
SelStack == {sel \in Selections : sel.type = "stack"}

\* one running container and the network
SelNetwork ==
    {sel \in Selections : sel.type = "network" \/ (sel.id = "c1" /\ sel.status = "running")}

\* the stack and one running container
SelStop ==
    {sel \in Selections : sel.type = "stack" \/ (sel.id = "c1" /\ sel.status = "running")}

\* one container, running or exited, and the network
SelCarry ==
    {sel \in Selections : sel.type = "network"
                             \/ (sel.id = "c1" /\ sel.status \in {"running", "exited"})}

\* the container the filter specification selects
SelOne == {sel \in Selections : sel.id = "c1" /\ sel.status = "running"}

\* raw lines the daemon delivers (before rstrip / strip_ansi_codes)
RawLines == {<<"a", "\n">>, <<"B", " ", "a">>}
RawOne == {<<"a", "\n">>}
\* the k-th line the daemon delivers to a stack's readers: every line is
\* different from the ones before it
NthRaw(k) == [i \in 1..k |-> "a"] \o <<"\n">>
\* raw lines made of escape characters, letters and brackets
AnsiRaws == UNION {[1..n -> {ESC, "A", "[", "a"}] : n \in 0..MaxAnsiLen}

\* a since value of more digits than a float can hold
BigSince == [i \in 1..(FloatDigits + 1) |-> "9"] \o <<"m">>

\* values of "log.since" in the configuration file
SinceTokens ==
    {<<"5", "m">>, <<"1", "5", "m">>, <<"1", "h">>, <<"2", "d">>, <<"0", "5", "m">>,
     <<"5", "m", "\n">>, <<"a", "b", "c">>, <<>>, <<"5">>, <<"m">>, <<"5", "z">>,
     <<"5", "m", "m">>, <<"5", "B">>, <<" ", "5", "m">>, <<"5", " ", "m">>,
     <<"5", "m", " ">>, BigSince}

\* two of the values typed into the search box
PatternsCarry == {<<>>, <<"b">>}

\* values typed into the search box
Patterns == {<<>>, <<"b">>, <<"z">>, <<" ", "a">>, <<" ">>}

\* ------------------------------------------------------------------ state
VARIABLES
    current_item,             \* NoItem or <<item_type, item_id>>
    current_item_data,        \* [name, status]
    search_filter,
    all_log_lines,            \* deque(maxlen=MAX_LINES) of log lines
    filtered_line_count,
    LOG_TAIL,
    LOG_SINCE,
    initial_log_check_done,
    waiting_for_logs,
    showing_no_logs_message,
    docker_client,            \* FALSE: docker.from_env() failed in __init__
    auto_follow,              \* the auto-follow checkbox
    scroll_requests,          \* scroll-to-end requests the last handler of the
                              \* UI thread sent to log_display
    log_thread,               \* 0 (None) or the session id of the newest worker
    log_queue,                \* queue.Queue of [sid, mt, c]
    stop_event,
    log_session_id,
    display,                  \* log_display.display
    view,                     \* log_display.text, as a sequence of entries
    main_pc,                  \* "idle", or "join": the UI thread is inside
                              \* log_thread.join(timeout=2) of _stop_logs
    cont,                     \* the handler that called _stop_logs
    threads,                  \* session id -> worker thread (_log_worker)
    emitted,                  \* lines delivered by the daemon so far
    lastOp                    \* history: the last handler run by the UI thread
                              \* ("filter_again": the search box handler ran
                              \* twice in a row with the same stripped value)

vars == <<current_item, current_item_data, search_filter, all_log_lines,
          auto_follow, scroll_requests,
          filtered_line_count, LOG_TAIL, LOG_SINCE, initial_log_check_done,
          waiting_for_logs, showing_no_logs_message, docker_client, log_thread,
          log_queue, stop_event, log_session_id, display, view, main_pc, cont,
          threads, emitted, lastOp>>

\* the variables no reader thread writes
uiVars == <<current_item, current_item_data, search_filter, all_log_lines,
            auto_follow, scroll_requests,
            filtered_line_count, LOG_TAIL, LOG_SINCE, initial_log_check_done,
            waiting_for_logs, showing_no_logs_message, docker_client, log_thread,
            stop_event, log_session_id, display, view, main_pc, cont, lastOp>>

Sessions == 1..MaxSession

\* a per-container reader of a stack worker (read_container_logs)
NoSub == [pc |-> "off", line |-> <<>>]

\* pc, the item read from current_item, the line in hand, the locals tail and
\* since (kept until the last log request that uses them is issued), and the
\* locals of _stream_stack_logs: has_any_logs, check_timer, combined_queue,
\* threads. started is a history field: <<LOG_TAIL, LOG_SINCE>> at the time
\* _start_logs created the thread, kept as long as tail and since. item is a
\* history field: current_item at the time _start_logs created the thread,
\* kept until _log_worker begins to run.
NoThread == [pc |-> "none", typ |-> "", id |-> "", line |-> <<>>,
             tail |-> "", since |-> 0, started |-> <<>>, item |-> <<>>,
             has_any_logs |-> FALSE, timer |-> "off", combined_queue |-> <<>>,
             subs |-> [m \in StackMembers |-> NoSub]]
\* a thread that has returned from _log_worker
DoneThread == [NoThread EXCEPT !.pc = "done"]

\* ------------------------------------------------------------------ view
LogLine(t, sid, src) == [t |-> t, sid |-> sid, src |-> src]
QItem(sid, mt, c) == [sid |-> sid, mt |-> mt, c |-> c]

\* a message the pane writes itself; nl: the text ends with a newline
Msg(tok, item, nl) == [k |-> "msg", c |-> LogLine(<<tok>>, 0, item), nl |-> nl]
LineEntry(c) == [k |-> "log", c |-> c, nl |-> TRUE]
ErrorEntry(c) == [k |-> "error", c |-> c, nl |-> TRUE]

ItemId(item) == IF item = NoItem THEN "" ELSE item[2]
ItemType(item) == IF item = NoItem THEN "" ELSE item[1]

\* _get_no_logs_message()
NoLogsMessage(item) == Msg("no_logs_found", ItemId(item), FALSE)
NoMatchMessage == Msg("no_match", "", FALSE)

\* the log lines shown in the view, in order
RECURSIVE ViewLines(_)
ViewLines(v) ==
    IF v = <<>> THEN <<>>
    ELSE IF Head(v).k = "log" THEN <<Head(v).c>> \o ViewLines(Tail(v))
    ELSE ViewLines(Tail(v))

\* ------------------------------------------------------------------ init
\* LogPane.__init__ followed by on_mount, with config "log.since" = since
InitState(since) ==
    /\ current_item = NoItem
    /\ current_item_data = NoData
    /\ search_filter = <<>>
    /\ all_log_lines = <<>>
    /\ filtered_line_count = 0
    /\ LOG_TAIL = "200"
    /\ LOG_SINCE = since
    /\ initial_log_check_done = FALSE
    /\ waiting_for_logs = FALSE
    /\ showing_no_logs_message = FALSE
    /\ docker_client \in BOOLEAN
    /\ auto_follow = TRUE
    /\ scroll_requests = 0
    /\ log_thread = 0
    /\ log_queue = <<>>
    /\ stop_event = FALSE
    /\ log_session_id = 0
    /\ display = FALSE
    /\ view = <<>>
    /\ main_pc = "idle"
    /\ cont = <<>>
    /\ threads = [s \in Sessions |-> NoThread]
    /\ emitted = 0
    /\ lastOp = "init"

\* the default configuration
Init == InitState(<<"1", "5", "m">>)

\* ------------------------------------------------------------------ buffer and filter
\* mutant: the comparison is case-sensitive
MatchesFilter_CaseSensitive(pattern, line) ==
    pattern = <<>> \/ Contains(pattern, line.t)

\* mutant: the empty pattern matches no line
MatchesFilter_NeverEmpty(pattern, line) ==
    pattern # <<>> /\ Contains(LowerStr(pattern), LowerStr(line.t))

\* `not self.search_filter or self.search_filter.lower() in content.lower()`
MatchesFilter(pattern, line) ==
    pattern = <<>> \/ Contains(LowerStr(pattern), LowerStr(line.t))

\* mutant: a list that is never trimmed
DequeAppend_Unbounded(buf, line) == Append(buf, line)

\* mutant: appendleft instead of append
DequeAppend_Left(buf, line) ==
    IF Len(buf) >= MAX_LINES THEN <<line>> \o SubSeq(buf, 1, Len(buf) - 1)
    ELSE <<line>> \o buf

\* deque(maxlen=MAX_LINES).append
DequeAppend(buf, line) ==
    IF Len(buf) >= MAX_LINES THEN Append(Tail(buf), line) ELSE Append(buf, line)

\* the loop of _refilter_logs: the buffered lines that match, in buffer order
FilteredLines(buf, pattern) == SelectSeq(buf, LAMBDA l : MatchesFilter(pattern, l))

\* mutant: no "No log lines match filter" text when nothing matches
RefilterView_NoPlaceholder(buf, pattern, showing, item) ==
    IF showing /\ Len(buf) = 0 THEN <<NoLogsMessage(item)>>
    ELSE LET filtered_lines == FilteredLines(buf, pattern)
         IN [i \in 1..Len(filtered_lines) |-> LineEntry(filtered_lines[i])]

\* the text _refilter_logs leaves in log_display
RefilterView(buf, pattern, showing, item) ==
    IF showing /\ Len(buf) = 0 THEN <<NoLogsMessage(item)>>
    ELSE LET filtered_lines == FilteredLines(buf, pattern)
         IN IF filtered_lines # <<>>
            THEN [i \in 1..Len(filtered_lines) |-> LineEntry(filtered_lines[i])]
            ELSE IF pattern # <<>> /\ Len(buf) > 0 THEN <<NoMatchMessage>>
            ELSE <<>>

\* mutant: the count is not reset before the scan
RefilterCount_NoReset(buf, pattern, showing) ==
    filtered_line_count + Len(FilteredLines(buf, pattern))

\* filtered_line_count after _refilter_logs
RefilterCount(buf, pattern, showing) ==
    IF showing /\ Len(buf) = 0 THEN 0 ELSE Len(FilteredLines(buf, pattern))

\* ------------------------------------------------------------------ session control
BlockingPcs == {"get", "probe", "loop", "list"}

Alive(s) == s # 0 /\ threads[s].pc \notin {"none", "done"}

\* mutant: _start_logs increments the session id twice
_start_logs_SkipsId ==
    /\ log_session_id' = log_session_id + 2
    /\ waiting_for_logs' = TRUE
    /\ initial_log_check_done' = FALSE
    /\ showing_no_logs_message' = FALSE
    /\ stop_event' = FALSE
    /\ log_thread' = log_session_id + 1
    /\ threads' = [threads EXCEPT ![log_session_id + 1] =
                       [NoThread EXCEPT !.pc = "start",
                                        !.started = <<LOG_TAIL, LOG_SINCE>>,
                                        !.item = current_item']]

\* LogPane._start_logs, as the values it assigns
_start_logs ==
    /\ log_session_id' = log_session_id + 1
    /\ waiting_for_logs' = TRUE
    /\ initial_log_check_done' = FALSE
    /\ showing_no_logs_message' = FALSE
    /\ stop_event' = FALSE
    /\ log_thread' = log_session_id + 1
    /\ threads' = [threads EXCEPT ![log_session_id + 1] =
                       [NoThread EXCEPT !.pc = "start",
                                        !.started = <<LOG_TAIL, LOG_SINCE>>,
                                        !.item = current_item']]

\* LogPane._stop_logs_async: signal, and empty the queue without waiting
_stop_logs_async ==
    /\ stop_event' = TRUE
    /\ log_queue' = <<>>

\* LogPane._stop_logs up to log_thread.join(timeout=2): the UI thread is blocked
\* from here until JoinReturn
_stop_logs(handler) ==
    /\ stop_event' = TRUE
    /\ main_pc' = "join"
    /\ cont' = handler

SelTuple(sel) == <<sel.type, sel.id, sel.status>>

\* mutant: the item that is already selected is treated as a new one, and its
\* buffered lines are dropped
UpdateSameItem_ClearsBuffer(sel, maxSession) ==
    /\ main_pc = "idle"
    /\ scroll_requests' = 0
    /\ current_item = <<sel.type, sel.id>>
    /\ lastOp' = "select_same"
    /\ current_item_data' = ItemData(sel)
    /\ all_log_lines' = <<>>
    /\ UNCHANGED <<current_item, search_filter, filtered_line_count, LOG_TAIL,
           LOG_SINCE, initial_log_check_done, waiting_for_logs,
           showing_no_logs_message, docker_client, auto_follow, log_thread, log_queue,
           stop_event, log_session_id, display, view, main_pc, cont, threads,
           emitted>>

\* update_selection, lines 383-408: the item that is already selected
UpdateSameItem(sel, maxSession) ==
    /\ main_pc = "idle"
    /\ scroll_requests' = 0
    /\ current_item = <<sel.type, sel.id>>
    /\ lastOp' = "select_same"
    /\ LET old_status == current_item_data.status
           new_status == sel.status
       IN IF /\ sel.type = "container"
             /\ \/ IsUp(old_status) /\ IsDown(new_status)
                \/ IsDown(old_status) /\ IsUp(new_status)
          THEN \* _handle_status_change(item_data), up to the join
               /\ IsUp(new_status) => log_session_id < maxSession
               /\ _stop_logs(<<"status", new_status>>)
               /\ UNCHANGED <<current_item, current_item_data, search_filter,
                      all_log_lines, filtered_line_count, LOG_TAIL, LOG_SINCE,
                      initial_log_check_done, waiting_for_logs,
                      showing_no_logs_message, docker_client, auto_follow, log_thread, log_queue,
                      log_session_id, display, view, threads, emitted>>
          ELSE /\ current_item_data' = ItemData(sel)
               /\ UNCHANGED <<current_item, search_filter, all_log_lines,
                      filtered_line_count, LOG_TAIL, LOG_SINCE,
                      initial_log_check_done, waiting_for_logs,
                      showing_no_logs_message, docker_client, auto_follow, log_thread, log_queue,
                      stop_event, log_session_id, display, view, main_pc, cont,
                      threads, emitted>>

KindMessage(type) ==
    IF type = "network" THEN "Networks" ELSE IF type = "image" THEN "Images" ELSE "Volumes"

\* update_selection, lines 421-439 and _show_no_logs_message_for_item_type
UpdateNoLogsKind(sel) ==
    /\ main_pc = "idle"
    /\ scroll_requests' = 0
    /\ current_item # <<sel.type, sel.id>>
    /\ sel.type \in {"network", "image", "volume"}
    /\ lastOp' = "select_kind"
    /\ current_item' = <<sel.type, sel.id>>
    /\ current_item_data' = ItemData(sel)
    /\ display' = TRUE
    /\ all_log_lines' = <<>>
    /\ view' = <<Msg(KindMessage(sel.type), "", FALSE)>>
    /\ _stop_logs_async
    /\ UNCHANGED <<search_filter, filtered_line_count, LOG_TAIL, LOG_SINCE,
           initial_log_check_done, waiting_for_logs, showing_no_logs_message,
           docker_client, auto_follow, log_thread, log_session_id, main_pc, cont, threads,
           emitted>>

\* mutant: the not-running branch returns without _stop_logs_async
UpdateNotRunning_NoStop(sel) ==
    /\ main_pc = "idle"
    /\ scroll_requests' = 0
    /\ current_item # <<sel.type, sel.id>>
    /\ sel.type = "container" /\ sel.status # "" /\ IsNotRunning(sel.status)
    /\ lastOp' = "select_stopped"
    /\ current_item' = <<sel.type, sel.id>>
    /\ current_item_data' = ItemData(sel)
    /\ display' = TRUE
    /\ all_log_lines' = <<>>
    /\ filtered_line_count' = 0
    /\ showing_no_logs_message' = FALSE
    /\ view' = <<Msg("not_running", sel.id, FALSE)>>
    /\ UNCHANGED <<search_filter, LOG_TAIL, LOG_SINCE, initial_log_check_done,
           waiting_for_logs, docker_client, auto_follow, log_thread, log_session_id,
           main_pc, cont, threads, emitted, stop_event, log_queue>>

\* update_selection, lines 410-420 and 443-461: another container, not running
UpdateNotRunning(sel) ==
    /\ main_pc = "idle"
    /\ scroll_requests' = 0
    /\ current_item # <<sel.type, sel.id>>
    /\ sel.type = "container" /\ sel.status # "" /\ IsNotRunning(sel.status)
    /\ lastOp' = "select_stopped"
    /\ current_item' = <<sel.type, sel.id>>
    /\ current_item_data' = ItemData(sel)
    /\ display' = TRUE
    /\ all_log_lines' = <<>>
    /\ filtered_line_count' = 0
    /\ showing_no_logs_message' = FALSE
    /\ view' = <<Msg("not_running", sel.id, FALSE)>>
    /\ _stop_logs_async
    /\ UNCHANGED <<search_filter, LOG_TAIL, LOG_SINCE, initial_log_check_done,
           waiting_for_logs, docker_client, auto_follow, log_thread, log_session_id,
           main_pc, cont, threads, emitted>>

\* mutant: selecting another container or stack empties the filter
UpdateNewItem_ResetsFilter(sel, maxSession) ==
    /\ main_pc = "idle"
    /\ scroll_requests' = 0
    /\ current_item # <<sel.type, sel.id>>
    /\ sel.type \in {"container", "stack"}
    /\ ~(sel.type = "container" /\ sel.status # "" /\ IsNotRunning(sel.status))
    /\ log_session_id < maxSession
    /\ lastOp' = "select_new"
    /\ current_item' = <<sel.type, sel.id>>
    /\ current_item_data' = ItemData(sel)
    /\ display' = TRUE
    /\ all_log_lines' = <<>>
    /\ filtered_line_count' = 0
    /\ search_filter' = <<>>
    /\ view' = <<Msg("loading", sel.id, TRUE)>>
    /\ log_queue' = <<>>
    /\ _start_logs
    /\ UNCHANGED <<LOG_TAIL, LOG_SINCE, docker_client, auto_follow, main_pc, cont,
           emitted>>

\* update_selection, lines 410-420 and 443-470: another container or stack
UpdateNewItem(sel, maxSession) ==
    /\ main_pc = "idle"
    /\ scroll_requests' = 0
    /\ current_item # <<sel.type, sel.id>>
    /\ sel.type \in {"container", "stack"}
    /\ ~(sel.type = "container" /\ sel.status # "" /\ IsNotRunning(sel.status))
    /\ log_session_id < maxSession
    /\ lastOp' = "select_new"
    /\ current_item' = <<sel.type, sel.id>>
    /\ current_item_data' = ItemData(sel)
    /\ display' = TRUE
    /\ all_log_lines' = <<>>
    /\ filtered_line_count' = 0
    /\ view' = <<Msg("loading", sel.id, TRUE)>>
    /\ log_queue' = <<>>          \* _stop_logs_async; its stop_event.set() is
    /\ _start_logs                \* undone by stop_event.clear() in _start_logs
    /\ UNCHANGED <<search_filter, LOG_TAIL, LOG_SINCE, docker_client, auto_follow,
           main_pc, cont, emitted>>

\* LogPane.update_selection
update_selection(sel, maxSession) ==
    \/ UpdateSameItem(sel, maxSession)
    \/ UpdateNoLogsKind(sel)
    \/ UpdateNotRunning(sel)
    \/ UpdateNewItem(sel, maxSession)

\* LogPane.clear_selection, up to the join of _stop_logs
clear_selection ==
    /\ main_pc = "idle"
    /\ scroll_requests' = 0
    /\ lastOp' = "clear"
    /\ _stop_logs(<<"clear">>)
    /\ UNCHANGED <<current_item, current_item_data, search_filter, all_log_lines,
           filtered_line_count, LOG_TAIL, LOG_SINCE, initial_log_check_done,
           waiting_for_logs, showing_no_logs_message, docker_client, auto_follow, log_thread,
           log_queue, log_session_id, display, view, threads, emitted>>

\* LogPane.on_select_changed; when logs are displayed, _restart_logs up to the
\* join of _stop_logs
on_select_changed(select_id, value, maxSession) ==
    /\ main_pc = "idle"
    /\ scroll_requests' = 0
    /\ select_id \in {"tail-select", "since-select"}
    /\ value # (IF select_id = "tail-select" THEN LOG_TAIL ELSE LOG_SINCE)
    /\ LOG_TAIL' = (IF select_id = "tail-select" THEN value ELSE LOG_TAIL)
    /\ LOG_SINCE' = (IF select_id = "since-select" THEN value ELSE LOG_SINCE)
    /\ lastOp' = "reconfigure"
    /\ IF current_item # NoItem /\ display
       THEN /\ log_session_id < maxSession
            /\ all_log_lines' = <<>>
            /\ filtered_line_count' = 0
            /\ showing_no_logs_message' = FALSE
            /\ view' = <<Msg("reloading", ItemId(current_item), TRUE)>>
            /\ waiting_for_logs' = TRUE
            /\ initial_log_check_done' = FALSE
            /\ _stop_logs(<<"restart">>)
            /\ UNCHANGED <<current_item, current_item_data, search_filter,
                   docker_client, auto_follow, log_thread, log_queue, log_session_id, display,
                   threads, emitted>>
       ELSE UNCHANGED <<current_item, current_item_data, search_filter,
                all_log_lines, filtered_line_count, initial_log_check_done,
                waiting_for_logs, showing_no_logs_message, docker_client, auto_follow,
                log_thread, log_queue, stop_event, log_session_id, display, view,
                main_pc, cont, threads, emitted>>

\* mutant: the join returns at once, wherever the reader is
JoinMayReturn_NoWait == TRUE

\* _stop_logs, lines 557-558: no join, the thread has finished, or the timeout
JoinMayReturn ==
    IF log_thread = 0 THEN TRUE
    ELSE threads[log_thread].pc \in {"done"} \cup BlockingPcs

\* log_thread.join(timeout=2) returns: the thread has finished, or the two
\* seconds ran out while it was blocked in a call to the daemon. Then the rest
\* of _stop_logs (the queue is emptied) and of the handler that called it.
JoinReturn ==
    /\ main_pc = "join"
    /\ scroll_requests' = 0
    /\ JoinMayReturn
    /\ main_pc' = "idle"
    /\ cont' = <<>>
    /\ log_queue' = <<>>
    /\ UNCHANGED <<search_filter, LOG_TAIL, LOG_SINCE, docker_client, auto_follow, emitted, lastOp>>
    /\ CASE cont[1] = "clear" ->
              \* clear_selection, lines 478-494
              /\ current_item' = NoItem
              /\ current_item_data' = NoData
              /\ display' = FALSE
              /\ view' = <<>>
              /\ all_log_lines' = <<>>
              /\ UNCHANGED <<filtered_line_count, initial_log_check_done,
                     waiting_for_logs, showing_no_logs_message, log_thread,
                     stop_event, log_session_id, threads>>
         [] cont[1] = "status" ->
              \* _handle_status_change, lines 505-524
              /\ current_item_data' = [name |-> ItemId(current_item), status |-> cont[2]]
              /\ all_log_lines' = <<>>
              /\ filtered_line_count' = 0
              /\ UNCHANGED <<current_item, display>>
              /\ IF IsNotRunning(cont[2])
                 THEN /\ view' = <<Msg("not_running", ItemId(current_item), FALSE)>>
                      /\ showing_no_logs_message' = FALSE
                      /\ UNCHANGED <<initial_log_check_done, waiting_for_logs,
                             log_thread, stop_event, log_session_id, threads>>
                 ELSE IF IsUp(cont[2])
                 THEN /\ view' = <<Msg("started", ItemId(current_item), TRUE)>>
                      /\ _start_logs
                 ELSE /\ view' = <<>>
                      /\ showing_no_logs_message' = FALSE
                      /\ UNCHANGED <<initial_log_check_done, waiting_for_logs,
                             log_thread, stop_event, log_session_id, threads>>
         [] cont[1] = "restart" ->
              \* _restart_logs, line 1049
              /\ UNCHANGED <<current_item, current_item_data, all_log_lines,
                     filtered_line_count, display, view>>
              /\ _start_logs

\* mutant: _refilter_logs scrolls to the end whatever the checkbox says
RefilterScrolls_IgnoresFollow(buf, pattern, follow) ==
    IF FilteredLines(buf, pattern) # <<>> THEN 1 ELSE 0

\* _refilter_logs, lines 983-988: one scroll request when auto-follow is on and
\* some line matched
RefilterScrolls(buf, pattern, follow) ==
    IF follow /\ FilteredLines(buf, pattern) # <<>> THEN 1 ELSE 0

\* LogPane.on_input_changed for the search box, with _refilter_logs
on_input_changed(value) ==
    /\ main_pc = "idle"
    /\ lastOp' = (IF lastOp \in {"filter", "filter_again"} /\ search_filter = Strip(value)
                  THEN "filter_again" ELSE "filter")
    /\ search_filter' = Strip(value)
    /\ view' = RefilterView(all_log_lines, Strip(value), showing_no_logs_message,
                            current_item)
    /\ filtered_line_count' = RefilterCount(all_log_lines, Strip(value),
                                            showing_no_logs_message)
    /\ scroll_requests' = RefilterScrolls(all_log_lines, Strip(value), auto_follow)
    /\ UNCHANGED <<current_item, current_item_data, all_log_lines, LOG_TAIL,
           LOG_SINCE, initial_log_check_done, waiting_for_logs,
           showing_no_logs_message, docker_client, auto_follow, log_thread, log_queue,
           stop_event, log_session_id, display, main_pc, cont, threads, emitted>>

\* LogPane.on_checkbox_changed for the auto-follow checkbox
on_checkbox_changed(value) ==
    /\ main_pc = "idle"
    /\ lastOp' = "follow"
    /\ auto_follow' = value
    /\ scroll_requests' = (IF value THEN 1 ELSE 0)
    /\ UNCHANGED <<current_item, current_item_data, search_filter, all_log_lines,
           filtered_line_count, LOG_TAIL, LOG_SINCE, initial_log_check_done,
           waiting_for_logs, showing_no_logs_message, docker_client, log_thread,
           log_queue, stop_event, log_session_id, display, view, main_pc, cont,
           threads, emitted>>

\* ------------------------------------------------------------------ reader threads
ErrorContent(tok, s, src) == LogLine(<<tok>>, s, src)

SetThread(s, th) == threads' = [threads EXCEPT ![s] = th]
Put(item) == log_queue' = Append(log_queue, item)

\* mutant: the worker does not look at docker_client
WorkerBegin_NoClientCheck(s) ==
    /\ threads[s].pc = "start"
    /\ SetThread(s, [threads[s] EXCEPT !.pc = "get", !.typ = ItemType(current_item),
                                       !.id = ItemId(current_item),
                                       !.item = <<>>])
    /\ UNCHANGED <<uiVars, log_queue, emitted>>

\* _log_worker, lines 585-601: the thread starts to run; it reads current_item
\* now, not when it was created
WorkerBegin(s) ==
    /\ threads[s].pc = "start"
    /\ LET item_type == ItemType(current_item)
           item_id == ItemId(current_item)
       IN IF ~docker_client
          THEN /\ Put(QItem(s, "error", ErrorContent("docker_unavailable", s, "")))
               /\ SetThread(s, DoneThread)
          ELSE IF item_type \in {"container", "stack"}
          THEN /\ SetThread(s, [threads[s] EXCEPT
                        !.pc = IF item_type = "container" THEN "get" ELSE "list",
                        !.typ = item_type,
                        !.item = <<>>,
                        !.id = IF item_type = "container" THEN item_id
                               ELSE current_item_data.name])
               /\ UNCHANGED log_queue
          ELSE /\ Put(QItem(s, "error", ErrorContent("unknown_item_type", s, item_id)))
               /\ SetThread(s, DoneThread)
    /\ UNCHANGED <<uiVars, emitted>>

\* _stream_container_logs, lines 614-621: containers.get returned; LOG_TAIL and
\* LOG_SINCE are read now. An exception of the conversion ends the reader like
\* any other exception (671-673 and 602-604).
ContainerGet(s) ==
    /\ threads[s].pc = "get"
    /\ IF SinceRaises(LOG_SINCE)
       THEN /\ Put(QItem(s, "error", ErrorContent("stream_error", s, threads[s].id)))
            /\ SetThread(s, DoneThread)
       ELSE /\ SetThread(s, [threads[s] EXCEPT
                     !.pc = "probe", !.tail = LOG_TAIL,
                     !.since = _convert_since_to_timestamp(LOG_SINCE)])
            /\ UNCHANGED log_queue
    /\ UNCHANGED <<uiVars, emitted>>

\* _stream_container_logs, lines 667-670: docker.errors.NotFound
ContainerNotFound(s) ==
    /\ threads[s].pc = "get"
    /\ Put(QItem(s, "error", ErrorContent("not_found", s, threads[s].id)))
    /\ SetThread(s, DoneThread)
    /\ UNCHANGED <<uiVars, emitted>>

\* mutant: after the error the reader calls the daemon again
ReaderException_Retries(s) ==
    /\ threads[s].pc \in {"get", "probe", "loop", "list"}
    /\ Put(QItem(s, "error", ErrorContent("stream_error", s, threads[s].id)))
    /\ SetThread(s, [threads[s] EXCEPT !.pc = "get"])
    /\ UNCHANGED <<uiVars, emitted>>

\* lines 671-673 and 602-604: any other exception of a daemon call
ReaderException(s) ==
    /\ threads[s].pc \in {"get", "probe", "loop", "list"}
    /\ Put(QItem(s, "error", ErrorContent("stream_error", s, threads[s].id)))
    /\ SetThread(s, DoneThread)
    /\ UNCHANGED <<uiVars, emitted>>

\* LogPane._check_no_logs_found: the sentinel is queued with session id 0
_check_no_logs_found ==
    IF waiting_for_logs /\ ~initial_log_check_done
    THEN Put(QItem(0, "no_logs", LogLine(<<>>, 0, "")))
    ELSE UNCHANGED log_queue

\* _stream_container_logs, lines 623-648: the tail=1 probe returned
ContainerProbe(s, empty) ==
    /\ threads[s].pc = "probe"
    /\ IF empty THEN _check_no_logs_found ELSE UNCHANGED log_queue
    /\ SetThread(s, [threads[s] EXCEPT !.pc = "loop", !.tail = "", !.since = 0,
                                       !.started = <<>>])
    /\ UNCHANGED <<uiVars, emitted>>

\* lines 652-663: the reader takes a line from the stream, the stop check lets
\* it pass, and the line is decoded and sanitized
ReaderTakeLine(s, raw) ==
    /\ threads[s].pc = "loop"
    /\ ~stop_event
    /\ LET line == Sanitize(raw)
       IN IF line # <<>>
          THEN SetThread(s, [threads[s] EXCEPT !.pc = "put", !.line = line])
          ELSE UNCHANGED threads
    /\ UNCHANGED <<uiVars, log_queue>>

\* lines 652-663: the stream delivers one of its first maxEmit lines
ReaderNextLine(s, raw, maxEmit) ==
    /\ emitted < maxEmit
    /\ emitted' = emitted + 1
    /\ ReaderTakeLine(s, raw)

\* lines 652-663: the stream of a superseded session delivers a further line;
\* these lines are not counted, the drain step discards them
SupersededNextLine(s, raw) ==
    /\ s < log_session_id
    /\ Len(log_queue) < MaxQueue
    /\ UNCHANGED emitted
    /\ ReaderTakeLine(s, raw)

\* mutant: the reader sees the stop signal and queues the line all the same
ReaderStopObserved_QueuesLine(s) ==
    /\ threads[s].pc = "loop"
    /\ stop_event
    /\ SetThread(s, [threads[s] EXCEPT !.pc = "put", !.line = <<"a">>])
    /\ UNCHANGED <<uiVars, log_queue, emitted>>

\* lines 652-654: the stream delivers a line and the stop check breaks the loop
ReaderStopObserved(s) ==
    /\ threads[s].pc = "loop"
    /\ stop_event
    /\ SetThread(s, DoneThread)
    /\ UNCHANGED <<uiVars, log_queue, emitted>>

\* line 652: the daemon closes the stream
ReaderStreamEnd(s) ==
    /\ threads[s].pc = "loop"
    /\ SetThread(s, DoneThread)
    /\ UNCHANGED <<uiVars, log_queue, emitted>>

\* line 665: log_queue.put((session_id, "log", line))
ReaderPut(s) ==
    /\ threads[s].pc = "put"
    /\ Put(QItem(s, "log", LogLine(threads[s].line, s, threads[s].id)))
    /\ SetThread(s, [threads[s] EXCEPT !.pc = "loop", !.line = <<>>])
    /\ UNCHANGED <<uiVars, emitted>>

\* ------------------------------------------------------------------ stack worker
\* what containers.list returns for the stack's label, and the members whose
\* log stream could be opened (lines 685-727)
StackListings ==
    {<<{}, {}>>, <<{"m1"}, {}>>, <<{"m1", "m2"}, {"m1"}>>, <<{"m1", "m2"}, {"m1", "m2"}>>}

\* f"[{name}] {line}"
Prefixed(name, line) == <<"[", name, "]", " ">> \o line

\* `all(not t.is_alive() for t in threads)`, line 795
SubsDone(th) == \A m \in StackMembers : th.subs[m].pc \in {"off", "done", "failed"}

\* _stream_stack_logs, lines 682-748 and 777-784: the members are listed, their
\* streams opened with LOG_TAIL and LOG_SINCE as they are now (709-710), the
\* watchdog timer and the per-container readers started
StackList(s, listing) ==
    /\ threads[s].pc = "list"
    /\ LET containers == listing[1]
           \* an exception of the conversion is caught per member (724-727)
           log_streams == IF SinceRaises(LOG_SINCE) THEN {} ELSE listing[2]
       IN IF containers = {}
          THEN /\ Put(QItem(s, "error", ErrorContent("no_containers", s, threads[s].id)))
               /\ SetThread(s, DoneThread)
          ELSE IF log_streams = {}
          THEN /\ Put(QItem(s, "error", ErrorContent("no_streams", s, threads[s].id)))
               /\ SetThread(s, DoneThread)
          ELSE /\ SetThread(s, [threads[s] EXCEPT
                        !.pc = "fwd",
                        !.started = <<>>,
                        !.timer = "pending",
                        !.subs = [m \in StackMembers |->
                                    IF m \in log_streams
                                    THEN [NoSub EXCEPT !.pc = "loop"] ELSE NoSub]])
               /\ UNCHANGED log_queue
    /\ UNCHANGED <<uiVars, emitted>>

\* read_container_logs, lines 759-772: a line arrives and passes the stop check
SubNextLine(s, m, raw, maxEmit) ==
    /\ threads[s].pc \in {"fwd", "fwd_put", "fwd_chk"}
    /\ threads[s].subs[m].pc = "loop"
    /\ ~stop_event
    /\ emitted < maxEmit
    /\ emitted' = emitted + 1
    /\ LET line == Sanitize(raw)
       IN IF line # <<>>
          THEN SetThread(s, [threads[s] EXCEPT
                   !.subs[m] = [pc |-> "put",
                                line |-> LogLine(Prefixed(m, line), s, m)]])
          ELSE UNCHANGED threads
    /\ UNCHANGED <<uiVars, log_queue>>

\* read_container_logs, lines 759-761: a line arrives and the stop check breaks
SubStopObserved(s, m) ==
    /\ threads[s].subs[m].pc = "loop"
    /\ stop_event
    /\ SetThread(s, [threads[s] EXCEPT !.subs[m] = [NoSub EXCEPT !.pc = "done"]])
    /\ UNCHANGED <<uiVars, log_queue, emitted>>

\* read_container_logs, line 759: the daemon closes the member's stream
SubStreamEnd(s, m) ==
    /\ threads[s].subs[m].pc = "loop"
    /\ SetThread(s, [threads[s] EXCEPT !.subs[m] = [NoSub EXCEPT !.pc = "done"]])
    /\ UNCHANGED <<uiVars, log_queue, emitted>>

\* mutant: the failure of one member's stream ends the stack worker
SubException_EndsWorker(s, m) ==
    /\ threads[s].subs[m].pc = "loop"
    /\ SetThread(s, DoneThread)
    /\ UNCHANGED <<uiVars, log_queue, emitted>>

\* read_container_logs, lines 774-775: the stream raises; the error is logged
\* and nothing is queued
SubException(s, m) ==
    /\ threads[s].subs[m].pc = "loop"
    /\ SetThread(s, [threads[s] EXCEPT !.subs[m] = [NoSub EXCEPT !.pc = "failed"]])
    /\ UNCHANGED <<uiVars, log_queue, emitted>>

\* read_container_logs, line 773: combined_queue.put(prefixed_line)
SubPut(s, m) ==
    /\ threads[s].subs[m].pc = "put"
    /\ SetThread(s, [threads[s] EXCEPT
           !.combined_queue = Append(@, threads[s].subs[m].line),
           !.subs[m] = [NoSub EXCEPT !.pc = "loop"]])
    /\ UNCHANGED <<uiVars, log_queue, emitted>>

\* mutant: the forwarder takes the newest line of combined_queue
FwdGet_TakesNewest(s) ==
    /\ threads[s].pc = "fwd"
    /\ ~stop_event
    /\ threads[s].combined_queue # <<>>
    /\ LET cq == threads[s].combined_queue
       IN SetThread(s, [threads[s] EXCEPT
              !.pc = "fwd_put",
              !.line = cq[Len(cq)],
              !.combined_queue = SubSeq(cq, 1, Len(cq) - 1),
              !.has_any_logs = TRUE])
    /\ UNCHANGED <<uiVars, log_queue, emitted>>

\* lines 787-791: the stop check passes and combined_queue.get returns a line
FwdGet(s) ==
    /\ threads[s].pc = "fwd"
    /\ ~stop_event
    /\ threads[s].combined_queue # <<>>
    /\ SetThread(s, [threads[s] EXCEPT
           !.pc = "fwd_put",
           !.line = Head(threads[s].combined_queue),
           !.combined_queue = Tail(@),
           !.has_any_logs = TRUE])
    /\ UNCHANGED <<uiVars, log_queue, emitted>>

\* line 792: log_queue.put((session_id, "log", line))
FwdPut(s) ==
    /\ threads[s].pc = "fwd_put"
    /\ Put(QItem(s, "log", threads[s].line))
    /\ SetThread(s, [threads[s] EXCEPT !.pc = "fwd", !.line = <<>>])
    /\ UNCHANGED <<uiVars, emitted>>

\* lines 787 and 799: the stop check ends the loop; the timer is cancelled
FwdStop(s) ==
    /\ threads[s].pc = "fwd"
    /\ stop_event
    /\ SetThread(s, DoneThread)
    /\ UNCHANGED <<uiVars, log_queue, emitted>>

\* lines 790 and 793: combined_queue.get(timeout=0.1) times out on an empty queue
FwdTimeout(s) ==
    /\ threads[s].pc = "fwd"
    /\ ~stop_event
    /\ threads[s].combined_queue = <<>>
    /\ SetThread(s, [threads[s] EXCEPT !.pc = "fwd_chk"])
    /\ UNCHANGED <<uiVars, log_queue, emitted>>

\* lines 794-799: after the timeout, the loop ends if no reader is alive
FwdCheck(s) ==
    /\ threads[s].pc = "fwd_chk"
    /\ IF SubsDone(threads[s])
       THEN SetThread(s, DoneThread)
       ELSE SetThread(s, [threads[s] EXCEPT !.pc = "fwd"])
    /\ UNCHANGED <<uiVars, log_queue, emitted>>

\* lines 745-747: the 0.5 s watchdog timer fires
TimerFire(s) ==
    /\ threads[s].timer = "pending"
    /\ IF ~threads[s].has_any_logs THEN _check_no_logs_found ELSE UNCHANGED log_queue
    /\ SetThread(s, [threads[s] EXCEPT !.timer = "off"])
    /\ UNCHANGED <<uiVars, emitted>>

\* ------------------------------------------------------------------ drain step
\* the state one tick of _process_log_queue works on
DrainState ==
    [buf |-> all_log_lines, view |-> view, cnt |-> filtered_line_count,
     showing |-> showing_no_logs_message, waiting |-> waiting_for_logs,
     processed |-> 0, scrolls |-> 0]

\* mutant: the drain step does not compare session ids
IsStale_NoCheck(q) == FALSE

\* _process_log_queue, lines 826-828: the record is from an old session
IsStale(q) == q.sid # 0 /\ q.sid # log_session_id

\* _process_log_queue, lines 815-882: one dequeued record
DrainItem(st, q) ==
    IF IsStale(q) THEN st
    ELSE LET st1 == [st EXCEPT !.processed = @ + 1]
         IN CASE q.mt = "log" ->
                   LET buf2 == DequeAppend(st.buf, q.c)
                   IN IF MatchesFilter(search_filter, q.c)
                      THEN LET v1 == IF search_filter # <<>> /\ st.cnt = 0
                                     THEN <<>> ELSE st.view
                               v2 == IF st.showing THEN <<>> ELSE v1
                           IN [st1 EXCEPT !.buf = buf2,
                                          !.view = Append(v2, LineEntry(q.c)),
                                          !.cnt = @ + 1,
                                          !.showing = FALSE,
                                          !.scrolls = IF auto_follow THEN @ + 1
                                                      ELSE @]
                      ELSE [st1 EXCEPT !.buf = buf2]
              [] q.mt = "error" ->
                   [st1 EXCEPT !.view = Append(@, ErrorEntry(q.c))]
              [] q.mt = "no_logs" ->
                   IF st.waiting
                   THEN [st1 EXCEPT !.view = <<NoLogsMessage(current_item)>>,
                                    !.waiting = FALSE,
                                    !.showing = TRUE]
                   ELSE st1

RECURSIVE DrainLoop_StaleNotCounted(_, _, _)
\* mutant: a record of an old session does not use up one of the 50 iterations
DrainLoop_StaleNotCounted(st, q, n) ==
    IF n = 0 \/ q = <<>> THEN [st |-> st, q |-> q]
    ELSE DrainLoop_StaleNotCounted(DrainItem(st, Head(q)), Tail(q),
                                   IF IsStale(Head(q)) THEN n ELSE n - 1)

RECURSIVE DrainLoop(_, _, _)
\* the `for _ in range(50)` loop over the queue
DrainLoop(st, q, n) ==
    IF n = 0 \/ q = <<>> THEN [st |-> st, q |-> q]
    ELSE DrainLoop(DrainItem(st, Head(q)), Tail(q), n - 1)

\* mutant: the placeholder is written whatever the number of matches
DrainFinish_IgnoresCount(st) ==
    IF st.processed > 0 /\ search_filter # <<>> /\ Len(st.buf) > 0
    THEN [st EXCEPT !.view = <<NoMatchMessage>>]
    ELSE st

\* lines 887-896: after the loop
DrainFinish(st) ==
    IF st.processed > 0 /\ search_filter # <<>> /\ Len(st.buf) > 0 /\ st.cnt = 0
    THEN [st EXCEPT !.view = <<NoMatchMessage>>]
    ELSE st

\* LogPane._process_log_queue: one timer tick (a tick on an empty queue changes
\* nothing)
_process_log_queue ==
    /\ main_pc = "idle"
    /\ log_queue # <<>>
    /\ LET r == DrainLoop(DrainState, log_queue, DRAIN_BATCH)
           st == DrainFinish(r.st)
       IN /\ log_queue' = r.q
          /\ all_log_lines' = st.buf
          /\ view' = st.view
          /\ filtered_line_count' = st.cnt
          /\ showing_no_logs_message' = st.showing
          /\ waiting_for_logs' = st.waiting
          /\ scroll_requests' = st.scrolls
          /\ initial_log_check_done' = (initial_log_check_done \/ st.processed > 0)
    /\ lastOp' = "drain"
    /\ UNCHANGED <<current_item, current_item_data, search_filter, LOG_TAIL,
           LOG_SINCE, docker_client, auto_follow, log_thread, stop_event, log_session_id,
           display, main_pc, cont, threads, emitted>>

\* ------------------------------------------------------------------ specification
\* the steps of a single-container reader that is never told to stop, without
\* daemon failures
StreamingReader(s, raws, maxEmit) ==
    \/ WorkerBegin(s)
    \/ ContainerGet(s)
    \/ \E empty \in BOOLEAN : ContainerProbe(s, empty)
    \/ \E raw \in raws : ReaderNextLine(s, raw, maxEmit)
    \/ ReaderStreamEnd(s)
    \/ ReaderPut(s)

\* the steps of a single-container reader, without daemon failures
ContainerReader(s, raws, maxEmit) ==
    \/ StreamingReader(s, raws, maxEmit)
    \/ ReaderStopObserved(s)

\* the failures of a daemon call in a worker thread
ReaderFailure(s) ==
    \/ ContainerNotFound(s)
    \/ ReaderException(s)

\* the steps of a stack worker and its per-container readers that are never
\* told to stop
StackStreaming(s, raws, maxEmit) ==
    \/ \E listing \in StackListings : StackList(s, listing)
    \/ \E m \in StackMembers :
          \/ \E raw \in raws : SubNextLine(s, m, raw, maxEmit)
          \/ SubStreamEnd(s, m)
          \/ SubException(s, m)
          \/ SubPut(s, m)
    \/ FwdGet(s)
    \/ FwdPut(s)
    \/ FwdTimeout(s)
    \/ FwdCheck(s)
    \/ TimerFire(s)

\* the steps of a stack worker and its per-container readers
StackReader(s, raws, maxEmit) ==
    \/ StackStreaming(s, raws, maxEmit)
    \/ \E m \in StackMembers : SubStopObserved(s, m)
    \/ FwdStop(s)

\* Session control on the hot path: re-selection among running containers and
\* tail/since changes, with the readers and the drain tick.
Next ==
    \/ \E sel \in SelRunning : UpdateNewItem(sel, MaxSession)
    \/ \E v \in TailOptions : on_select_changed("tail-select", v, MaxSession)
    \/ \E v \in SinceOptions : on_select_changed("since-select", v, MaxSession)
    \/ JoinReturn
    \/ _process_log_queue
    \/ \E s \in Sessions : ContainerReader(s, RawOne, MaxEmit)

Spec == Init /\ [][Next]_vars

\* Selection of every kind of item, status changes of the selected container
\* and clear_selection, with the readers and the drain tick.
NextSelect ==
    \/ \E sel \in SelKinds : update_selection(sel, MaxSelSession)
    \/ clear_selection
    \/ JoinReturn
    \/ _process_log_queue
    \/ \E s \in Sessions : ContainerReader(s, RawOne, MaxSelEmit)
    \/ \E s \in Sessions : ReaderFailure(s)

SpecSelect == Init /\ [][NextSelect]_vars

\* The buffer and filter engine: one container is selected and streams lines
\* while the search box changes.
NextFilter ==
    \/ \E sel \in SelOne : UpdateNewItem(sel, MaxSession)
    \/ \E p \in Patterns : on_input_changed(p)
    \/ _process_log_queue
    \/ \E s \in Sessions : StreamingReader(s, RawLines, MaxFilterEmit)

SpecFilter == Init /\ [][NextFilter]_vars

\* The stack is selected; the stack worker fans the streams of its members
\* into the intake queue, and the drain tick moves them to the buffer.
NextStack ==
    \/ \E sel \in SelStack : UpdateNewItem(sel, MaxStackSession)
    \/ _process_log_queue
    \/ \E s \in Sessions : WorkerBegin(s)
    \/ \E s \in Sessions : StackStreaming(s, {NthRaw(emitted + 1)}, MaxStackEmit)

SpecStack == Init /\ [][NextStack]_vars

\* A running container and a network are selected in turn while the tail
\* setting changes, with the readers and the drain tick.
NextKind ==
    \/ \E sel \in SelNetwork : UpdateNewItem(sel, MaxSession)
    \/ \E sel \in SelNetwork : UpdateNoLogsKind(sel)
    \/ \E v \in TailOptions : on_select_changed("tail-select", v, MaxSession)
    \/ JoinReturn
    \/ _process_log_queue
    \/ \E s \in Sessions : ContainerReader(s, RawOne, MaxEmit)

SpecKind == Init /\ [][NextKind]_vars

\* Re-selection and tail changes with readers whose streams never run dry:
\* the threads and the drain timer are scheduled fairly, join returns, and the
\* stream of a superseded reader keeps delivering lines.
LiveReader(s) ==
    \/ ContainerReader(s, RawOne, MaxLiveEmit)
    \/ \E raw \in RawOne : SupersededNextLine(s, raw)

NextLive ==
    \/ \E sel \in SelRunning : UpdateNewItem(sel, MaxSession)
    \/ \E v \in TailOptions : on_select_changed("tail-select", v, MaxSession)
    \/ JoinReturn
    \/ _process_log_queue
    \/ \E s \in Sessions : LiveReader(s)

FairLive ==
    /\ WF_vars(_process_log_queue)
    /\ WF_vars(JoinReturn)
    /\ \A s \in Sessions :
          /\ WF_vars(WorkerBegin(s))
          /\ WF_vars(ContainerGet(s))
          /\ WF_vars(\E empty \in BOOLEAN : ContainerProbe(s, empty))
          /\ WF_vars(ReaderPut(s))
          /\ WF_vars(ReaderStopObserved(s))
          /\ SF_vars(\E raw \in RawOne : SupersededNextLine(s, raw))

SpecLive == Init /\ [][NextLive]_vars /\ FairLive

\* A log flood: the stream of the last session of the run delivers a burst of
\* lines between two drain ticks; the stream of the session before it delivers
\* only the first lines of the run; the readers of earlier sessions do not get
\* to run.
FloodQuota(s) == IF s = MaxSession THEN MaxFloodEmit ELSE MaxStaleEmit

FloodSessions == {s \in Sessions : s >= MaxSession - 1}

\* the steps of a reader in the flood; the tail=1 probe finds logs
FloodReader(s) ==
    \/ WorkerBegin(s)
    \/ ContainerGet(s)
    \/ ContainerProbe(s, FALSE)
    \/ \E raw \in RawOne :
          /\ lastOp # "drain"
          /\ ReaderNextLine(s, raw, FloodQuota(s))
    \/ ReaderPut(s)

NextFlood ==
    \/ \E sel \in SelRunning : UpdateNewItem(sel, MaxSession)
    \/ _process_log_queue
    \/ \E s \in FloodSessions : FloodReader(s)

SpecFlood == Init /\ [][NextFlood]_vars

\* The configuration file sets "log.since" to any string; a container is
\* selected and its reader converts the value.
InitSince == \E since \in SinceTokens : InitState(since)

NextSince ==
    \/ \E sel \in SelOne : UpdateNewItem(sel, MaxSelSession)
    \/ _process_log_queue
    \/ \E s \in Sessions : StreamingReader(s, RawOne, MaxSelEmit)

SpecSince == InitSince /\ [][NextSince]_vars

\* A container is selected and its stream delivers lines with escape
\* sequences in them.
NextAnsi ==
    \/ \E sel \in SelOne : UpdateNewItem(sel, MaxSelSession)
    \/ _process_log_queue
    \/ \E s \in Sessions : StreamingReader(s, AnsiRaws, MaxAnsiEmit)

SpecAnsi == Init /\ [][NextAnsi]_vars

\* the current session and the one before it
RecentSessions == {s \in Sessions : s >= log_session_id - 1}

\* A container is selected and the tail setting changes while the streams
\* deliver lines that are all different; the drain timer keeps firing. The
\* readers of the current session and of the one before it get to run.
NextTick ==
    \/ \E sel \in SelOne : UpdateNewItem(sel, MaxSession)
    \/ \E v \in TailOptions : on_select_changed("tail-select", v, MaxSession)
    \/ JoinReturn
    \/ _process_log_queue
    \/ \E s \in RecentSessions : ContainerReader(s, {NthRaw(emitted + 1)}, MaxTickEmit)

FairTick == WF_vars(_process_log_queue)

SpecTick == Init /\ [][NextTick]_vars /\ FairTick

\* The stack or a container is selected and the selection is cleared while the
\* streams are open: a stream never ends by itself here, the readers end when
\* they see the stop signal.
StopReader(s) ==
    \/ WorkerBegin(s)
    \/ ContainerGet(s)
    \/ ContainerProbe(s, FALSE)
    \/ \E raw \in RawOne : ReaderNextLine(s, raw, MaxStopEmit)
    \/ ReaderPut(s)
    \/ ReaderStopObserved(s)
    \/ StackList(s, <<StackMembers, StackMembers>>)
    \/ \E m \in StackMembers :
          \/ \E raw \in RawOne : SubNextLine(s, m, raw, MaxStopEmit)
          \/ SubPut(s, m)
          \/ SubStopObserved(s, m)
    \/ FwdGet(s)
    \/ FwdPut(s)
    \/ FwdTimeout(s)
    \/ FwdCheck(s)
    \/ FwdStop(s)
    \/ TimerFire(s)

NextStop ==
    \/ \E sel \in SelStop : UpdateNewItem(sel, MaxStopSession)
    \/ clear_selection
    \/ JoinReturn
    \/ _process_log_queue
    \/ \E s \in Sessions : StopReader(s)

SpecStop == Init /\ [][NextStop]_vars

\* One container streams lines while the auto-follow checkbox and the search
\* box change.
NextFollow ==
    \/ \E sel \in SelOne : UpdateNewItem(sel, MaxSelSession)
    \/ \E v \in BOOLEAN : on_checkbox_changed(v)
    \/ \E p \in Patterns : on_input_changed(p)
    \/ _process_log_queue
    \/ \E s \in Sessions : StreamingReader(s, RawLines, MaxFollowEmit)

SpecFollow == Init /\ [][NextFollow]_vars

\* One container streams lines and its reader fails, while the search box
\* changes.
NextError ==
    \/ \E sel \in SelOne : UpdateNewItem(sel, MaxSelSession)
    \/ \E p \in Patterns : on_input_changed(p)
    \/ _process_log_queue
    \/ \E s \in Sessions : StreamingReader(s, RawLines, MaxErrorEmit)
    \/ \E s \in Sessions : ReaderFailure(s)

SpecError == Init /\ [][NextError]_vars

\* One container streams more lines than the buffer holds, every line with a
\* text of its own, while the search box changes.
NextEvict ==
    \/ \E sel \in SelOne : UpdateNewItem(sel, MaxSelSession)
    \/ \E p \in Patterns : on_input_changed(p)
    \/ _process_log_queue
    \/ \E s \in Sessions : StreamingReader(s, {NthRaw(emitted + 1)}, MaxEvictEmit)

SpecEvict == Init /\ [][NextEvict]_vars

\* Every handler of the UI thread that starts, stops or restarts a session,
\* with the search box: selections, status changes, clear_selection and tail
\* changes while a filter is set. Only the reader of the newest session is
\* scheduled.
NextCarry ==
    \/ \E sel \in SelCarry : update_selection(sel, MaxCarrySession)
    \/ clear_selection
    \/ \E v \in TailOptions : on_select_changed("tail-select", v, MaxCarrySession)
    \/ JoinReturn
    \/ \E p \in PatternsCarry : on_input_changed(p)
    \/ _process_log_queue
    \/ \E s \in Sessions :
          s = log_session_id /\ ContainerReader(s, RawOne, MaxCarryEmit)

SpecCarry == Init /\ [][NextCarry]_vars

\* ------------------------------------------------------------------ claims
Range(seq) == {seq[i] : i \in 1..Len(seq)}

\* the records one drain step takes from the queue
Dequeued == SubSeq(log_queue, 1, Len(log_queue) - Len(log_queue'))

\* src is the selected container, or a member of the selected stack
BelongsTo(src, item) ==
    /\ item # NoItem
    /\ \/ item[1] = "container" /\ src = item[2]
       \/ item[1] = "stack" /\ src \in StackMembers

\* C1: a log line that a drain step dequeues while its session id differs from
\* the current session id is neither in the buffer nor in the view afterwards.
C1_StaleSessionRejected ==
    [][_process_log_queue =>
          \A i \in 1..Len(Dequeued) :
              (Dequeued[i].mt = "log" /\ Dequeued[i].sid # log_session_id) =>
                  /\ Dequeued[i].c \notin Range(all_log_lines')
                  /\ Dequeued[i].c \notin Range(ViewLines(view'))]_vars

\* C1 witness: in the second session a drain tick has taken records from the
\* queue and accepted none of them: they were lines of the first session.
C1_Witness ==
    /\ lastOp = "drain"
    /\ docker_client
    /\ log_session_id = 2
    /\ ~initial_log_check_done
    /\ all_log_lines = <<>>

\* C2: every line in the buffer was read from the currently selected item.
C2_BufferOfCurrentItem ==
    \A i \in 1..Len(all_log_lines) : BelongsTo(all_log_lines[i].src, current_item)

\* the view that shows exactly the lines of seq
Lines(seq) == [i \in 1..Len(seq) |-> LineEntry(seq[i])]

\* the last n elements of seq
Suffix(seq, n) == IF Len(seq) <= n THEN seq ELSE SubSeq(seq, Len(seq) - n + 1, Len(seq))

\* the log lines of the current session among the first n dequeued records
RECURSIVE AcceptedLines(_)
AcceptedLines(n) ==
    IF n = 0 THEN <<>>
    ELSE IF Dequeued[n].mt = "log" /\ Dequeued[n].sid \in {0, log_session_id}
         THEN Append(AcceptedLines(n - 1), Dequeued[n].c)
         ELSE AcceptedLines(n - 1)

\* C3: the buffer never holds more than MAX_LINES lines, and a drain step leaves
\* the newest MAX_LINES of the old buffer followed by the lines it accepted:
\* each append at capacity drops exactly the oldest line and keeps the order.
C3_BufferBounded ==
    /\ [](Len(all_log_lines) <= MAX_LINES)
    /\ [][_process_log_queue =>
             all_log_lines' =
                 Suffix(all_log_lines \o AcceptedLines(Len(Dequeued)), MAX_LINES)]_vars

\* C3 witness: with no filter, a drain tick has accepted more lines than the
\* buffer holds, and the buffer is full.
C3_Witness ==
    /\ lastOp = "drain"
    /\ search_filter = <<>>
    /\ filtered_line_count > MAX_LINES
    /\ Len(all_log_lines) = MAX_LINES

\* C4: with an empty filter, once a drain tick has processed every line the
\* source emitted (no more than the buffer holds), the view is exactly those
\* lines in order and nothing else.
C4_ViewIsDrainedLines ==
    (/\ lastOp = "drain"
     /\ search_filter = <<>>
     /\ emitted > 0
     /\ emitted <= MAX_LINES
     /\ Len(all_log_lines) = emitted) => view = Lines(all_log_lines)

\* the lines of buf that contain p, compared in lower case, in buffer order
Containing(buf, p) == SelectSeq(buf, LAMBDA l : Contains(LowerStr(p), LowerStr(l.t)))

\* C5 (as stated): set_filter(p) with a line containing p shows exactly the
\* lines containing p, in buffer order, and counts them.
C5_FilterShowsLinesContainingP ==
    [][\A p \in Patterns :
          (on_input_changed(p) /\ Containing(all_log_lines, p) # <<>>) =>
              /\ view' = Lines(Containing(all_log_lines, p))
              /\ filtered_line_count' = Len(Containing(all_log_lines, p))]_vars

\* C5 (amended): set_filter(p) with a line containing p stripped of its
\* surrounding whitespace shows exactly the lines containing the stripped
\* pattern, in buffer order, and counts them.
C5_FilterShowsLinesContainingStripped ==
    [][\A p \in Patterns :
          (on_input_changed(p) /\ Containing(all_log_lines, Strip(p)) # <<>>) =>
              /\ view' = Lines(Containing(all_log_lines, Strip(p)))
              /\ filtered_line_count' = Len(Containing(all_log_lines, Strip(p)))]_vars

\* C5 witness: " a" was typed; the view shows both buffered lines, "B a" and "a".
C5_Witness ==
    /\ lastOp = "filter"
    /\ search_filter = <<"a">>
    /\ Len(all_log_lines) = 2
    /\ all_log_lines[1].t # all_log_lines[2].t
    /\ filtered_line_count = 2
    /\ view = Lines(all_log_lines)

\* C6 (as stated): set_filter(p) with p non-empty on a non-empty buffer without
\* a line containing p shows only the placeholder and counts 0; set_filter
\* never shows the placeholder when p or the buffer is empty.
C6_PlaceholderForNonEmptyP ==
    [][\A p \in Patterns :
          on_input_changed(p) =>
              /\ (p # <<>> /\ all_log_lines # <<>> /\ Containing(all_log_lines, p) = <<>>)
                     => (view' = <<NoMatchMessage>> /\ filtered_line_count' = 0)
              /\ (p = <<>> \/ all_log_lines = <<>>)
                     => NoMatchMessage \notin Range(view')]_vars

\* C6 (amended): the same with p stripped of its surrounding whitespace: a
\* pattern of blanks only is an empty pattern.
C6_PlaceholderForNonEmptyStripped ==
    [][\A p \in Patterns :
          on_input_changed(p) =>
              /\ (/\ Strip(p) # <<>>
                  /\ all_log_lines # <<>>
                  /\ Containing(all_log_lines, Strip(p)) = <<>>)
                     => (view' = <<NoMatchMessage>> /\ filtered_line_count' = 0)
              /\ (Strip(p) = <<>> \/ all_log_lines = <<>>)
                     => NoMatchMessage \notin Range(view')]_vars

\* C6 witness: "z" was typed over a full buffer; only the placeholder is shown.
C6_Witness ==
    /\ lastOp = "filter"
    /\ search_filter = <<"z">>
    /\ Len(all_log_lines) = MAX_LINES
    /\ filtered_line_count = 0
    /\ view = <<NoMatchMessage>>

C8_RefilterIdempotent ==
    [][\A p \in Patterns :
          (/\ lastOp \in {"filter", "filter_again"}
           /\ search_filter = Strip(p)
           /\ on_input_changed(p))
              => (view' = view /\ filtered_line_count' = filtered_line_count)]_vars

\* C8 witness: a non-empty pattern that matches one of two buffered lines was
\* applied twice in a row.
C8_Witness ==
    /\ lastOp = "filter_again"
    /\ search_filter # <<>>
    /\ Len(all_log_lines) = 2
    /\ filtered_line_count = 1

\* a step that ends a transition to a new session: update_selection to another
\* running container, or _restart_logs after a tail/since change
NewSessionStep ==
    \/ \E sel \in SelRunning : UpdateNewItem(sel, MaxSession)
    \/ JoinReturn /\ cont = <<"restart">>

\* what C9 states of such a step, but for the stop signal
NewSessionEffect ==
    /\ log_session_id' = log_session_id + 1
    /\ all_log_lines' = <<>>
    /\ filtered_line_count' = 0
    /\ log_thread' = log_session_id'
    /\ threads' = [threads EXCEPT ![log_session_id'] = [NoThread EXCEPT !.pc = "start"]]

C9_NewSessionStarted == [][NewSessionStep => NewSessionEffect]_vars

\* the status goes from running to not running or back
Crossing(old, new) ==
    \/ IsUp(old) /\ IsNotRunning(new)
    \/ IsNotRunning(old) /\ IsUp(new)

\* C10: update_selection for the item that is already selected, its status not
\* crossing the running/stopped boundary, stores the new metadata and leaves
\* the selection, the session id, the buffer, the view, the match count, the
\* stop signal, the intake queue and the readers as they were.
C10_SameSelectionOnlyMetadata ==
    [][\A sel \in SelKinds :
          (/\ current_item = <<sel.type, sel.id>>
           /\ ~(sel.type = "container" /\ Crossing(current_item_data.status, sel.status))
           /\ update_selection(sel, MaxSelSession))
              => /\ current_item_data' = ItemData(sel)
                 /\ UNCHANGED <<current_item, log_session_id, all_log_lines, view,
                        filtered_line_count, stop_event, log_queue, log_thread,
                        threads>>]_vars

\* C10 witness: the selected container was reported again, now as "up", while
\* its reader runs and lines are buffered.
C10_Witness ==
    /\ lastOp = "select_same"
    /\ main_pc = "idle"
    /\ current_item = <<"container", "c1">>
    /\ current_item_data.status = "up"
    /\ all_log_lines # <<>>
    /\ Alive(log_thread)
    /\ ~stop_event

\* a step of update_selection for the selected container whose status crosses
\* the running/stopped boundary
StatusCrossingStep ==
    \E sel \in SelKinds :
        /\ sel.type = "container"
        /\ current_item = <<sel.type, sel.id>>
        /\ Crossing(current_item_data.status, sel.status)
        /\ update_selection(sel, MaxSelSession)

\* C11: update_selection for the selected container with a status that crosses
\* the running/stopped boundary, in either direction, starts the status change
\* (stop and wait for the reader), and when the status change completes the
\* session id has grown by one and the buffer is empty.
C11_StatusCrossingStartsSession ==
    /\ [][StatusCrossingStep => (main_pc' = "join" /\ cont'[1] = "status")]_vars
    /\ [][(JoinReturn /\ cont[1] = "status") =>
             (log_session_id' = log_session_id + 1 /\ all_log_lines' = <<>>)]_vars

\* an item of a kind without logs is selected
KindSelected == ItemType(current_item) \in {"network", "image", "volume"}

\* C12: update_selection with a network, image or volume sets the stop signal
\* and shows the '<Kind> do not have logs' message; while that item stays
\* selected the view is that message, no session is created and no reader is
\* started, whatever drain ticks and tail/since changes occur.
C12_NoLogsKindTerminal ==
    /\ [][(\E sel \in SelNetwork : UpdateNoLogsKind(sel)) => stop_event']_vars
    /\ [](KindSelected =>
             view = <<Msg(KindMessage(ItemType(current_item)), "", FALSE)>>)
    /\ [][(KindSelected /\ current_item' = current_item) =>
             /\ log_session_id' = log_session_id
             /\ \A s \in Sessions : threads[s].pc = "none" => threads'[s].pc = "none"]_vars

\* C13: when clear_selection completes the selection is None, the stop signal
\* is set and the buffer is empty; while nothing is selected the stop signal
\* stays set, the buffer stays empty, no session is created and no reader is
\* started, whatever the readers in flight and the drain ticks do.
C13_ClearedIsIdle ==
    /\ [][(JoinReturn /\ cont = <<"clear">>) =>
             (current_item' = NoItem /\ stop_event' /\ all_log_lines' = <<>>)]_vars
    /\ [](current_item = NoItem => all_log_lines = <<>>)
    /\ [][(current_item = NoItem /\ current_item' = NoItem) =>
             /\ stop_event => stop_event'
             /\ log_session_id' = log_session_id
             /\ \A s \in Sessions : threads[s].pc = "none" => threads'[s].pc = "none"]_vars

\* C13 witness: after a session was cleared, a drain tick has processed what a
\* reader in flight still enqueued; nothing is selected and the buffer is empty.
C13_Witness ==
    /\ lastOp = "drain"
    /\ current_item = NoItem
    /\ log_session_id >= 1
    /\ stop_event
    /\ all_log_lines = <<>>
    /\ view # <<>>

\* the reader workers that are alive
AliveReaders == {s \in Sessions : Alive(s)}

\* C14: at most one reader worker is alive while the stop signal is unset.
C14_OneActiveReader == stop_event \/ Cardinality(AliveReaders) <= 1

\* C15: a reader whose session has been superseded eventually terminates.
C15_SupersededReaderTerminates ==
    \A s \in Sessions : (Alive(s) /\ s < log_session_id) ~> ~Alive(s)

\* a step of the reader started for session s that puts a record on the queue
EnqueuesRecord(s) ==
    /\ threads'[s] # threads[s]
    /\ threads[s].pc # "none"
    /\ Len(log_queue') = Len(log_queue) + 1
    /\ SubSeq(log_queue', 1, Len(log_queue)) = log_queue

\* C16: every record a reader puts on the intake queue carries the id of the
\* session the reader was started for.
C16_RecordsTaggedWithSession ==
    [][\A s \in Sessions :
          EnqueuesRecord(s) => log_queue'[Len(log_queue')].sid = s]_vars

\* the reader of session s fails in a daemon call
ReaderFails(s) == ContainerNotFound(s) \/ ReaderException(s)

\* a reader thread is started
ReaderStarted == \E s \in Sessions : threads[s].pc = "none" /\ threads'[s].pc # "none"

\* C17: a single-container reader that fails puts exactly one Error record,
\* tagged with its session, on the queue and terminates; a terminated reader
\* puts nothing on the queue and does not run again; readers are started only
\* by update_selection and by the completion of a status change.
C17_FailedReaderOneError ==
    /\ [][\A s \in Sessions :
             ReaderFails(s) =>
                 /\ Len(log_queue') = Len(log_queue) + 1
                 /\ SubSeq(log_queue', 1, Len(log_queue)) = log_queue
                 /\ log_queue'[Len(log_queue')].mt = "error"
                 /\ log_queue'[Len(log_queue')].sid = s
                 /\ threads'[s].pc = "done"]_vars
    /\ [][\A s \in Sessions :
             threads[s].pc = "done" =>
                 (threads'[s] = threads[s] /\ ~EnqueuesRecord(s))]_vars
    /\ [][ReaderStarted =>
             \/ \E sel \in SelKinds : UpdateNewItem(sel, MaxSelSession)
             \/ JoinReturn /\ cont[1] = "status"]_vars

\* C17 witness: the reader of the current session has failed and terminated,
\* and a drain tick has shown its error.
C17_Witness ==
    /\ lastOp = "drain"
    /\ log_thread # 0
    /\ threads[log_thread].pc = "done"
    /\ \E i \in 1..Len(view) :
          /\ view[i].k = "error"
          /\ view[i].c.sid = log_session_id
          /\ view[i].c.t \in {<<"not_found">>, <<"stream_error">>}

\* C18: without a Docker client the intake queue never holds a Data record or
\* a NoLogsSentinel: only Error records are enqueued, no line is read and the
\* buffer stays empty, in every session.
C18_NoClientNoStreaming ==
    ~docker_client =>
        /\ \A i \in 1..Len(log_queue) : log_queue[i].mt = "error"
        /\ emitted = 0
        /\ all_log_lines = <<>>

\* C18 witness: without a Docker client, in the second session, a drain tick
\* has shown the error of that session's worker.
C18_Witness ==
    /\ ~docker_client
    /\ lastOp = "drain"
    /\ log_session_id = 2
    /\ \E i \in 1..Len(view) :
          /\ view[i].k = "error"
          /\ view[i].c.sid = 2
          /\ view[i].c.t = <<"docker_unavailable">>

\* the stack worker of session s is in its forwarding loop
Forwarding(s) == threads[s].pc \in {"fwd", "fwd_put", "fwd_chk"}

\* C19: in a stack session the failure of one member's stream, when it is
\* opened or while it is read, does not end the session: the worker keeps
\* forwarding, the readers of the other members are untouched, and the worker
\* leaves its loop only when no member reader is alive.
C19_MemberFailureKeepsSession ==
    /\ [][\A s \in Sessions : \A listing \in StackListings :
             (StackList(s, listing) /\ listing[2] # {}) =>
                 /\ threads'[s].pc = "fwd"
                 /\ \A m \in listing[2] : threads'[s].subs[m].pc = "loop"]_vars
    /\ [][\A s \in Sessions : \A m \in StackMembers :
             SubException(s, m) =>
                 /\ Forwarding(s)
                 /\ threads'[s].pc = threads[s].pc
                 /\ \A m2 \in StackMembers \ {m} :
                       threads'[s].subs[m2] = threads[s].subs[m2]
                 /\ threads'[s].combined_queue = threads[s].combined_queue]_vars
    /\ [][\A s \in Sessions :
             (Forwarding(s) /\ threads'[s].pc = "done") => SubsDone(threads[s])]_vars

\* C19 witness: the stream of m2 has failed; lines of m1 are in the buffer and
\* its reader holds a further line, while the worker is still forwarding.
C19_Witness ==
    \E s \in Sessions :
        /\ Forwarding(s)
        /\ threads[s].subs["m2"].pc = "failed"
        /\ threads[s].subs["m1"].pc = "put"
        /\ all_log_lines # <<>>
        /\ \A i \in 1..Len(all_log_lines) : all_log_lines[i].src = "m1"

\* the step puts exactly one Error record of session s into the intake queue
PutsOneError(s) ==
    /\ Len(log_queue') = Len(log_queue) + 1
    /\ SubSeq(log_queue', 1, Len(log_queue)) = log_queue
    /\ log_queue'[Len(log_queue')].sid = s
    /\ log_queue'[Len(log_queue')].mt = "error"

\* C20: in a stack session a member reader whose stream fails to open or
\* fails while being read puts exactly one Error record of its session into
\* the intake queue and exits.
C20_MemberFailureQueuesError ==
    /\ [][\A s \in Sessions : \A m \in StackMembers :
             SubException(s, m) =>
                 /\ PutsOneError(s)
                 /\ threads'[s].subs[m].pc \in {"done", "failed"}]_vars
    /\ [][\A s \in Sessions : \A listing \in StackListings :
             (StackList(s, listing) /\ listing[2] # {} /\ listing[2] # listing[1]) =>
                 PutsOneError(s)]_vars

\* the position of a stack line in the sequence of lines the daemon delivered
LineNo(l) == Len(l.t) - Len(Prefixed(l.src, <<>>))

\* the lines of seq are in per-source emission order
SourceOrdered(seq) ==
    \A i, j \in 1..Len(seq) :
        (i < j /\ seq[i].src = seq[j].src) => LineNo(seq[i]) < LineNo(seq[j])

\* C21: in a stack session the lines of one source are in the buffer in the
\* order the source emitted them, each prefixed with "[name] " of its own
\* source; and when a drain tick takes one line of each of two sources, both
\* lines are in the buffer afterwards.
C21_StackSourceOrder ==
    /\ [](/\ SourceOrdered(all_log_lines)
          /\ \A i \in 1..Len(all_log_lines) :
                LET l == all_log_lines[i]
                IN /\ l.src \in StackMembers
                   /\ Len(l.t) > Len(Prefixed(l.src, <<>>))
                   /\ SubSeq(l.t, 1, Len(Prefixed(l.src, <<>>))) = Prefixed(l.src, <<>>))
    /\ [][(/\ _process_log_queue
           /\ Len(Dequeued) = 2
           /\ \A i \in 1..2 : Dequeued[i].mt = "log"
           /\ Dequeued[1].c.src # Dequeued[2].c.src)
          => /\ Dequeued[1].c \in Range(all_log_lines')
             /\ Dequeued[2].c \in Range(all_log_lines')]_vars

\* C21 witness: the readers of m1 and m2 ran interleaved; the buffer holds a
\* line of m2 followed by a later line of m1.
C21_Witness ==
    /\ lastOp = "drain"
    /\ Len(all_log_lines) = 2
    /\ all_log_lines[1].src = "m2"
    /\ all_log_lines[2].src = "m1"
    /\ emitted = MaxStackEmit

\* C22: every log request of a session's readers uses the tail depth and the
\* since window that were in effect when the session was started: the single
\* container reader that has read them for its probe and follow stream, and
\* the stack worker when it opens its members' streams.
C22_ReadersUseStartSettings ==
    /\ [](\A s \in Sessions :
             threads[s].pc = "probe" =>
                 /\ threads[s].tail = threads[s].started[1]
                 /\ threads[s].since = _convert_since_to_timestamp(threads[s].started[2]))
    /\ [][\A s \in Sessions : \A listing \in StackListings :
             (StackList(s, listing) /\ listing[2] # {}) =>
                 <<LOG_TAIL, LOG_SINCE>> = threads[s].started]_vars

\* the UI thread is inside log_thread.join(timeout=2) on a reader that runs
JoiningReader == main_pc = "join" /\ Alive(log_thread)

\* C23: the UI thread never waits in a join on a reader thread inside
\* update_selection to a different item or inside a tail/since reconfigure.
C23_NoJoinOnReselectOrReconfigure ==
    JoiningReader =>
        lastOp \notin {"select_new", "select_kind", "select_stopped", "reconfigure"}

Min(a, b) == IF a < b THEN a ELSE b

\* C24: one drain tick takes at most DRAIN_BATCH records from the intake
\* queue, records of old sessions included, and leaves the rest of the queue
\* in place; it completes in one step of the UI thread, whatever the readers
\* are doing, and touches no reader thread.
C24_DrainBatchBounded ==
    [][_process_log_queue =>
          /\ Len(Dequeued) = Min(Len(log_queue), DRAIN_BATCH)
          /\ log_queue' = SubSeq(log_queue, Len(Dequeued) + 1, Len(log_queue))
          /\ main_pc' = "idle"
          /\ threads' = threads]_vars

\* C24 witness: more than DRAIN_BATCH records were queued, one of them from the
\* old session; the tick took DRAIN_BATCH of them, accepted one less, and left
\* the rest in the queue.
C24_Witness ==
    /\ lastOp = "drain"
    /\ emitted = MaxFloodEmit
    /\ filtered_line_count = DRAIN_BATCH - 1
    /\ Len(log_queue) = MaxFloodEmit - DRAIN_BATCH

\* the seconds of one unit of a since value
UnitSeconds(u) == IF u = "m" THEN 60 ELSE IF u = "h" THEN 3600 ELSE 86400

\* C25: for every since value the conversion returns: the reader that called
\* it goes on to its probe, with since = now - value * (60 | 3600 | 86400)
\* for a value that matches ^(\d+)([mhd])$, and now - 900 for any other.
C25_SinceConversionTotal ==
    [][\A s \in Sessions :
          ContainerGet(s) =>
              /\ threads'[s].pc = "probe"
              /\ threads'[s].since =
                     IF SinceMatch(LOG_SINCE)
                     THEN Now - ParseInt(SinceDigits(LOG_SINCE))
                                  * UnitSeconds(SinceUnit(LOG_SINCE))
                     ELSE Now - 900]_vars

\* C26: strip_ansi_codes is idempotent: the line a reader has sanitized holds
\* no sequence the escape pattern matches, so sanitizing it again changes
\* nothing.
C26_SanitizerIdempotent ==
    \A s \in Sessions :
        threads[s].pc = "put" =>
            /\ strip_ansi_codes(threads[s].line) = threads[s].line
            /\ \A i \in 1..Len(threads[s].line) : AnsiMatchLen(threads[s].line, i) = 0

\* the Data records of the current session that are in the intake queue
CurrentRecords ==
    SelectSeq(log_queue, LAMBDA q : q.mt = "log" /\ q.sid = log_session_id)

\* C27: while the session stays current and no selection or reconfigure
\* happens, the Data records of the session leave the intake queue only
\* through a drain step, which appends them to the buffer in the order they
\* were enqueued; and the drain timer sees to it that they do leave.
C27_CurrentRecordsReachBuffer ==
    /\ (CurrentRecords # <<>> /\ main_pc = "idle")
           ~> (CurrentRecords = <<>> \/ main_pc = "join")
    /\ [][(log_session_id' = log_session_id /\ main_pc = "idle" /\ main_pc' = "idle") =>
             \/ /\ ~_process_log_queue
                /\ SubSeq(CurrentRecords', 1, Len(CurrentRecords)) = CurrentRecords
             \/ /\ _process_log_queue
                /\ LET n == Len(CurrentRecords) - Len(CurrentRecords')
                   IN /\ CurrentRecords' = SubSeq(CurrentRecords, n + 1, Len(CurrentRecords))
                      /\ all_log_lines' =
                            Suffix(all_log_lines \o [i \in 1..n |-> CurrentRecords[i].c],
                                   MAX_LINES)]_vars

\* C27 witness: two records of the second session were enqueued and drained;
\* the buffer holds their lines in the order they were read.
C27_Witness ==
    /\ lastOp = "drain"
    /\ log_session_id = 2
    /\ Len(all_log_lines) = 2
    /\ all_log_lines[1].sid = 2
    /\ all_log_lines[2].sid = 2
    /\ Len(all_log_lines[1].t) < Len(all_log_lines[2].t)

\* the step puts exactly one NoLogsSentinel into the intake queue
PutsOneSentinel ==
    /\ Len(log_queue') = Len(log_queue) + 1
    /\ SubSeq(log_queue', 1, Len(log_queue)) = log_queue
    /\ log_queue'[Len(log_queue')].mt = "no_logs"

\* C28: the reader of a single-container session puts one NoLogsSentinel into
\* the intake queue when its tail=1 probe returns no logs, and none when the
\* probe returns logs; no other step of a single-container reader puts one.
C28_SentinelOncePerEmptyProbe ==
    [][\A s \in Sessions :
          /\ ContainerProbe(s, TRUE) => PutsOneSentinel
          /\ ContainerProbe(s, FALSE) => log_queue' = log_queue
          /\ (ContainerReader(s, RawOne, MaxEmit) /\ threads[s].pc # "probe") =>
                 \A i \in 1..Len(log_queue') :
                     log_queue'[i].mt = "no_logs" => i <= Len(log_queue)]_vars

\* C29: in a stack session that is not told to stop, the fan-in loop ends only
\* when every per-container reader has exited and no line a reader has put is
\* left on the combined queue.
C29_FanInLosesNoLine ==
    [][\A s \in Sessions :
          (Forwarding(s) /\ threads'[s].pc = "done") =>
              /\ SubsDone(threads[s])
              /\ threads[s].combined_queue = <<>>]_vars

\* C30: while the session has rendered a Data line (filtered_line_count counts
\* the lines rendered since the session started), the view is not the
\* "No logs found ... Waiting for new logs" message.
C30_NoLogsMessageNotAfterData ==
    filtered_line_count > 0 => view # <<NoLogsMessage(current_item)>>

\* a step of the worker of session s, or of one of its per-container readers
ReaderStep(s) == threads'[s] # threads[s] /\ threads[s].pc \notin {"none", "done"}

\* C31: a reader that sees the stop signal at its stop check ends without
\* queueing anything (the single-container reader at line 653, the aggregator
\* loop at 787, the per-container stack reader at 760); a reader that has ended
\* takes no further step, and every record put into the intake queue is put by
\* a step of a reader that has not ended.
C31_NoPutAfterStopObserved ==
    [][\A s \in Sessions :
          /\ (threads[s].pc = "loop" /\ stop_event /\ ReaderStep(s)) =>
                 (threads'[s].pc = "done" /\ log_queue' = log_queue)
          /\ (threads[s].pc = "fwd" /\ stop_event /\ threads'[s].pc # "fwd") =>
                 (threads'[s].pc = "done" /\ log_queue' = log_queue)
          /\ \A m \in StackMembers :
                 /\ (threads[s].subs[m].pc = "loop" /\ stop_event
                       /\ threads'[s].subs[m] # threads[s].subs[m]) =>
                        /\ threads'[s].subs[m].pc \in {"done", "off"}
                        /\ threads'[s].pc = "done" \/
                               threads'[s].combined_queue = threads[s].combined_queue
                        /\ log_queue' = log_queue
                 /\ threads[s].subs[m].pc = "done" =>
                        threads'[s].subs[m].pc \in {"done", "off"}
          /\ threads[s].pc = "done" => threads'[s] = threads[s]
          /\ Len(log_queue') > Len(log_queue) => \E t \in Sessions : ReaderStep(t)]_vars

\* the selection is being cleared, every line of the stream was delivered, and
\* the reader has ended at its stop check
C31_Witness ==
    /\ main_pc = "join"
    /\ stop_event
    /\ log_thread # 0
    /\ threads[log_thread].pc = "done"
    /\ emitted = MaxStopEmit

\* the records of a tick that are rendered: log records of the current session
\* that match the filter
RenderedInTick ==
    SelectSeq(Dequeued, LAMBDA q : ~IsStale(q) /\ q.mt = "log"
                                   /\ MatchesFilter(search_filter, q.c))

\* C32: a drain tick sends one scroll request per rendered matching line when
\* auto-follow is on and none when it is off; a change of the filter sends
\* none when auto-follow is off; switching auto-follow on sends one at once,
\* switching it off sends none.
C32_ScrollOnlyWhenFollowing ==
    [][/\ _process_log_queue =>
             scroll_requests' = (IF auto_follow THEN Len(RenderedInTick) ELSE 0)
       /\ (\E p \in Patterns : on_input_changed(p)) =>
             /\ ~auto_follow => scroll_requests' = 0
             /\ scroll_requests' <= 1
       /\ on_checkbox_changed(TRUE) => scroll_requests' = 1
       /\ on_checkbox_changed(FALSE) => scroll_requests' = 0]_vars

\* a tick rendered every line of the stream with auto-follow off and sent no
\* scroll request
C32_Witness ==
    /\ lastOp = "drain"
    /\ ~auto_follow
    /\ search_filter = <<>>
    /\ filtered_line_count = MaxFollowEmit
    /\ Len(ViewLines(view)) = MaxFollowEmit
    /\ scroll_requests = 0

\* C33: after a drain tick that processed an Error record of the current
\* session, the view holds the inline error line of that record, and the UI
\* thread is idle again, ready for the next tick.
C33_ErrorShownInline ==
    [][_process_log_queue =>
          /\ \A i \in 1..Len(Dequeued) :
                 (Dequeued[i].mt = "error" /\ ~IsStale(Dequeued[i])) =>
                     \E j \in 1..Len(view') : view'[j] = ErrorEntry(Dequeued[i].c)
          /\ main_pc' = "idle"]_vars

\* the view shows the "No log lines match filter" placeholder
ShowsPlaceholder(v) == \E j \in 1..Len(v) : v[j] = NoMatchMessage

\* C34: the view never holds the "No log lines match filter" placeholder
\* together with a log line, and a step that writes the placeholder leaves
\* filtered_line_count at 0.
C34_PlaceholderExcludesLines ==
    /\ [](ShowsPlaceholder(view) => ViewLines(view) = <<>>)
    /\ [][(ShowsPlaceholder(view') /\ view' # view) => filtered_line_count' = 0]_vars

\* the buffer holds a line that does not match the filter and, after it, the
\* first matching line, which a tick has rendered alone
C34_Witness ==
    /\ lastOp = "drain"
    /\ search_filter # <<>>
    /\ Len(all_log_lines) = 2
    /\ ~MatchesFilter(search_filter, all_log_lines[1])
    /\ filtered_line_count = 1
    /\ view = <<LineEntry(all_log_lines[2])>>

\* the step starts the reader thread of session log_session_id + 1
StartsReader ==
    /\ log_session_id + 1 \in Sessions
    /\ threads[log_session_id + 1].pc = "none"
    /\ threads'[log_session_id + 1].pc = "start"
    /\ log_thread' = log_session_id + 1

\* C35: log_session_id never decreases; a step increases it, by exactly one,
\* if and only if the step starts a reader; every record in the intake queue
\* carries a session id that is at most log_session_id.
C35_SessionIdMonotonic ==
    /\ [](\A i \in 1..Len(log_queue) : log_queue[i].sid <= log_session_id)
    /\ [][/\ log_session_id' \in {log_session_id, log_session_id + 1}
          /\ log_session_id' = log_session_id + 1 <=> StartsReader]_vars

\* the second session is running and a record of the first is in the queue
C35_Witness ==
    /\ log_session_id = MaxSession
    /\ \E i \in 1..Len(log_queue) : log_queue[i].sid = MaxSession - 1
    /\ \E i \in 1..Len(log_queue) : log_queue[i].sid = MaxSession

\* C36: filtered_line_count is the number of lines of the buffer that match
\* the current filter.
C36_MatchCountIsBufferMatches ==
    filtered_line_count = Len(FilteredLines(all_log_lines, search_filter))

\* C37: every log line shown in the view is a line of the buffer.
C37_ViewLinesInBuffer ==
    Range(ViewLines(view)) \subseteq Range(all_log_lines)

\* C38: search_filter changes only in a step of on_input_changed; every other
\* step (selection, status change, clear_selection, tail change, the end of a
\* join, a drain tick, a reader step) leaves it as it is, and a drain tick
\* counts the lines it renders with that pattern.
C38_FilterSurvivesSessions ==
    [][/\ search_filter' # search_filter => \E p \in PatternsCarry : on_input_changed(p)
       /\ _process_log_queue =>
             filtered_line_count' = filtered_line_count + Len(RenderedInTick)]_vars

\* the second session's line was drained under a filter it does not match, and
\* the placeholder is shown
C38_Witness ==
    /\ log_session_id = MaxCarrySession
    /\ lastOp = "drain"
    /\ search_filter # <<>>
    /\ Len(all_log_lines) = 1
    /\ all_log_lines[1].sid = MaxCarrySession
    /\ filtered_line_count = 0
    /\ view = <<NoMatchMessage>>

\* the step selects a container other than the current item whose status
\* contains "exited", "stopped" or "created"
SelectsNotRunning ==
    /\ main_pc = "idle"
    /\ current_item' # current_item
    /\ ItemType(current_item') = "container"
    /\ IsNotRunning(current_item_data'.status)

\* C39: a step that selects another container that is not running sets the stop
\* signal, empties the buffer and the intake queue, shows the "is not running"
\* message, and starts no reader: the session id, the reader threads and
\* log_thread are unchanged.
C39_NotRunningSelectionStopsOnly ==
    [][SelectsNotRunning =>
          /\ stop_event'
          /\ all_log_lines' = <<>>
          /\ log_queue' = <<>>
          /\ view' = <<Msg("not_running", ItemId(current_item'), FALSE)>>
          /\ log_session_id' = log_session_id
          /\ log_thread' = log_thread
          /\ threads' = threads]_vars

\* a not-running container was selected while the reader of the session was
\* alive with a record in flight
C39_Witness ==
    /\ lastOp = "select_stopped"
    /\ stop_event
    /\ log_queue = <<>>
    /\ log_session_id = MaxSelSession
    /\ Alive(log_thread)
    /\ threads[log_thread].pc = "put"

\* C40: when the worker of session s begins to run and goes on to stream, the
\* item it streams is the item that was selected when _start_logs created the
\* session.
C40_ReaderStreamsItemOfItsSession ==
    [][\A s \in Sessions :
          (threads[s].pc = "start" /\ threads'[s].pc \in {"get", "list"}) =>
              /\ threads'[s].typ = ItemType(threads[s].item)
              /\ threads'[s].id = ItemId(threads[s].item)]_vars

====
